---- MODULE Spec2Model ----
(***************************************************************************)
(* Model of the package analyzers of container-diff (differs/rpm_diff.go,   *)
(* differs/apk_diff.go): the daemon gate (daemonMutex + lock file), the    *)
(* rpm query in a container, and the rpm / apk parsers.                     *)
(***************************************************************************)
EXTENDS Integers, Sequences, FiniteSets, TLC

\* ------------------------------------------------------------------ bounds
NumTasks == 2        \* goroutines of this process that run an analyzer
MaxLayers == 2       \* layers of an image
MaxLines == 3        \* lines of a text given to a parser
MaxWorldLines == 2   \* lines of an etc/apk/world file
MaxTries == 10       \* rpm_diff.go:325  for i := 0; i < 10; i++

Tasks == 1..NumTasks
NoTask == 0

VARIABLES
  pc,         \* pc[t]: where goroutine t is in getPackages / rpmDataFromContainer
  mutex,      \* daemonMutex: NoTask, or the goroutine that locked it
  fileOwner,  \* the lock file: "free", "self" (this process), "other" (another process)
  tries,      \* tries[t]: the loop variable i of lock()
  lastErr,    \* lastErr[t]: err of lock() after the latest TryLock: "nil", "temp"
  kind,       \* kind[t]: the analyzer goroutine t runs
  nl,         \* number of layers of the image under analysis (len(image.Layers))
  tmpOK,      \* whether os.TempDir() is an absolute path, so that lockfile.New succeeds
  image,      \* the image under analysis: whether it holds an rpm database, and
              \* what the rpm query prints for it (split at "\n")
  li,         \* li[t]: layer the per-layer loop is at (1..nl[t])
  acc,        \* acc[t]: packages slice built so far by a per-layer loop
  pend,       \* pend[t]: return value of rpmDataFromContainer while its defers run
  exitCode,   \* exitCode[t]: what client.WaitContainer returned
  ret,        \* ret[t]: what getPackages returned
  facts,      \* facts[t]: what the environment did during the call (history)
  input,      \* the text given to a parser: lines, or a pair of files
  output,     \* what the parser returned for it, NotRun before the call
  daemon      \* daemon[t]: the requests the current rpmDataFromContainer call of t
              \* has made to the Docker daemon, in order (history)

vars == <<pc, mutex, fileOwner, tries, lastErr, kind, nl, tmpOK, image, li, acc, pend, exitCode, ret, facts,
         input, output, daemon>>

\* ---------------------------------------------------------------- strings
\* A string is a sequence of one-character strings.
TAB == "\t"
Digits == {"0", "1", "2", "3", "4", "5", "6", "7", "8", "9"}
DigitVal(c) ==
  CASE c = "0" -> 0 [] c = "1" -> 1 [] c = "2" -> 2 [] c = "3" -> 3 [] c = "4" -> 4
    [] c = "5" -> 5 [] c = "6" -> 6 [] c = "7" -> 7 [] c = "8" -> 8 [] c = "9" -> 9

\* strings.Split(s, sep) for a one-character sep: one more piece than
\* separators, the empty string giving one empty piece
RECURSIVE Split(_, _)
Split(s, sep) ==
  IF \A i \in 1..Len(s) : s[i] # sep
  THEN <<s>>
  ELSE LET k == CHOOSE i \in 1..Len(s) : s[i] = sep /\ \A j \in 1..(i - 1) : s[j] # sep
       IN <<SubSeq(s, 1, k - 1)>> \o Split(SubSeq(s, k + 1, Len(s)), sep)

RECURSIVE DecimalValue(_)
DecimalValue(ds) ==
  IF ds = <<>> THEN 0
  ELSE 10 * DecimalValue(SubSeq(ds, 1, Len(ds) - 1)) + DigitVal(ds[Len(ds)])

\* strconv.ParseInt(s, 10, 64): an optional sign, then one or more digits;
\* anything else is an error.  The digit strings of this model have at most
\* three digits, so the range error of ParseInt (a value outside int64) cannot
\* arise and is not modelled.
ParseInt(s) ==
  LET signed == s # <<>> /\ s[1] \in {"+", "-"}
      ds == IF signed THEN Tail(s) ELSE s
      wellFormed == ds # <<>> /\ \A i \in 1..Len(ds) : ds[i] \in Digits
      mag == IF wellFormed THEN DecimalValue(ds) ELSE 0
  IN IF wellFormed
     THEN [ok |-> TRUE, val |-> IF signed /\ s[1] = "-" THEN 0 - mag ELSE mag]
     ELSE [ok |-> FALSE, val |-> 0]

\* a Go map: a function on the set of its keys
NoPackages == <<>>
\* an assignment that keeps the entry a key already has
PutIfAbsent(m, k, v) == [x \in DOMAIN m \cup {k} |-> IF x \in DOMAIN m THEN m[x] ELSE v]

\* packages[k] = v
Put(m, k, v) == [x \in DOMAIN m \cup {k} |-> IF x = k THEN v ELSE m[x]]

\* ------------------------------------------------------- parsePackageData
\* One line of the rpm query output: a line that does not split into three
\* columns is skipped, an unparsable size ends the parse with an error
RECURSIVE parsePackageDataFrom(_, _, _)
parsePackageDataFrom(rpmOutput, i, packages) ==
  IF i > Len(rpmOutput) THEN [packages |-> packages, err |-> FALSE]
  ELSE LET spl == Split(rpmOutput[i], TAB)
       IN IF Len(spl) # 3
          THEN parsePackageDataFrom(rpmOutput, i + 1, packages)
          ELSE LET size == ParseInt(spl[3])
               IN IF ~size.ok
                  THEN [packages |-> packages, err |-> TRUE]
                  ELSE parsePackageDataFrom(rpmOutput, i + 1,
                         Put(packages, spl[1], [Version |-> spl[2], Size |-> size.val]))

parsePackageData(rpmOutput) == parsePackageDataFrom(rpmOutput, 1, NoPackages)

\* outputs of the rpm query, split at "\n" (the text ends with "\n", so the
\* last line is empty)
OutEmpty == << <<>> >>
OutOne == << <<"a", TAB, "1", TAB, "5">>, <<>> >>
OutBadSize == << <<"a", TAB, "1", TAB, "5">>, <<"b", TAB, "2", TAB, "x">>, <<>> >>
RpmOutputs == {OutEmpty, OutOne, OutBadSize}
\* the images: one without an rpm database, for which the query prints
\* nothing, and one with a database for each output
Images == {[dbOK |-> FALSE, out |-> OutEmpty]} \cup [dbOK : {TRUE}, out : RpmOutputs]

\* -------------------------------------------- apk: lib/apk/db/installed
NoInfo == [Version |-> <<>>, Size |-> 0]
InfoOf(packages, name) == IF name \in DOMAIN packages THEN packages[name] ELSE NoInfo

\* the "I" case of parseApkInfo: the size as it is written, -1 when it is no
\* integer
ApkSize(value) ==
  LET size == ParseInt(value) IN IF size.ok THEN size.val ELSE 0 - 1

\* parseApkInfo of the reader of lib/apk/db/installed: one line, given the
\* current package name; returns the new current name and the map
parseApkInfoInstalled(text, currPackage, packages) ==
  LET line == Split(text, ":")
  IN IF Len(line) = 2
     THEN LET key == line[1]
              value == line[2]
          IN CASE key = <<"P">> -> [curr |-> value, packages |-> packages]
               [] key = <<"V">> ->
                    [curr |-> currPackage,
                     packages |-> Put(packages, currPackage,
                                      [InfoOf(packages, currPackage) EXCEPT !.Version = value])]
               [] key = <<"I">> ->
                    [curr |-> currPackage,
                     packages |-> Put(packages, currPackage,
                                      [InfoOf(packages, currPackage) EXCEPT
                                         !.Size = ApkSize(value)])]
               [] OTHER -> [curr |-> currPackage, packages |-> packages]
     ELSE [curr |-> currPackage, packages |-> packages]

\* the scanner loop of readWorldFile over the lines of the installed database
RECURSIVE scanInstalled(_, _, _, _)
scanInstalled(lines, i, currPackage, packages) ==
  IF i > Len(lines) THEN packages
  ELSE LET r == parseApkInfoInstalled(lines[i], currPackage, packages)
       IN scanInstalled(lines, i + 1, r.curr, r.packages)

\* a reader that takes a missing database file for an error
readWorldFileMissingIsError(e) ==
  IF ~e.rootOK \/ ~e.fileOK \/ ~e.openOK
  THEN [packages |-> NoPackages, err |-> TRUE, read |-> FALSE]
  ELSE [packages |-> scanInstalled(e.lines, 1, <<>>, NoPackages), err |-> FALSE, read |-> TRUE]

\* readWorldFile of the reader of lib/apk/db/installed, for a root directory
\* e: [rootOK, fileOK, openOK, lines]
readWorldFileInstalled(e) ==
  IF ~e.rootOK THEN [packages |-> NoPackages, err |-> TRUE, read |-> FALSE]
  ELSE IF ~e.fileOK THEN [packages |-> NoPackages, err |-> FALSE, read |-> FALSE]
  ELSE IF ~e.openOK THEN [packages |-> NoPackages, err |-> TRUE, read |-> FALSE]
  ELSE [packages |-> scanInstalled(e.lines, 1, <<>>, NoPackages), err |-> FALSE, read |-> TRUE]

\* ------------------------------------------------------------- data model
\* A package map is represented by where its content was parsed from:
\* "none" is the empty map of make(map[string]util.PackageInfo).
Kinds == {"rpm", "rpmLayer", "apk", "apkLayer"}
EmptyMap == [from |-> "none", layer |-> 0, n |-> 0]
MapFrom(src, layer, m) == [from |-> src, layer |-> layer, n |-> Cardinality(DOMAIN m)]
NoFacts == [rootOK |-> TRUE, dbAbsent |-> FALSE, bin |-> FALSE, fallback |-> FALSE,
            hostNonZero |-> FALSE, contNonZero |-> FALSE, loadFailed |-> FALSE]
NotRun == [run |-> FALSE]
NoRet == [err |-> FALSE, maps |-> <<>>]
NoPend == [err |-> FALSE, m |-> EmptyMap]

\* -------------------------------------------------- rpmDataFromContainer
\* The value rpmDataFromContainer returns goes to its caller: getPackages of
\* RPMAnalyzer returns it as it is; the loop of rpmDataFromLayeredContainers
\* returns on an error and otherwise appends it and goes to the next layer.
\* The locals of rpmDataFromContainer end with the call.
ReturnFromContainer(t, e, m) ==
  /\ pend' = [pend EXCEPT ![t] = NoPend]
  /\ exitCode' = [exitCode EXCEPT ![t] = 0]
  /\ IF kind[t] = "rpm"
     THEN /\ pc' = [pc EXCEPT ![t] = "done"]
          /\ ret' = [ret EXCEPT ![t] = [err |-> e, maps |-> <<m>>]]
          /\ UNCHANGED <<acc, li>>
     ELSE IF e
     THEN /\ pc' = [pc EXCEPT ![t] = "done"]
          /\ ret' = [ret EXCEPT ![t] = [err |-> TRUE, maps |-> acc[t]]]
          /\ UNCHANGED <<acc, li>>
     ELSE IF li[t] = nl
     THEN /\ pc' = [pc EXCEPT ![t] = "done"]
          /\ ret' = [ret EXCEPT ![t] = [err |-> FALSE, maps |-> Append(acc[t], m)]]
          /\ acc' = [acc EXCEPT ![t] = Append(acc[t], m)]
          /\ UNCHANGED li
     ELSE /\ pc' = [pc EXCEPT ![t] = "append"]
          /\ acc' = [acc EXCEPT ![t] = Append(acc[t], m)]
          /\ li' = [li EXCEPT ![t] = li[t] + 1]
          /\ UNCHANGED ret

\* godocker.NewClientFromEnv()
NewClient(t) ==
  /\ pc[t] = "client"
  /\ \E ok \in BOOLEAN :
       IF ok
       THEN /\ pc' = [pc EXCEPT ![t] = "lock_mutex"]
            /\ UNCHANGED <<ret, acc, li, pend, exitCode>>
       ELSE ReturnFromContainer(t, TRUE, EmptyMap)
  /\ UNCHANGED <<mutex, fileOwner, tries, lastErr, kind, nl, tmpOK, image, input, output, facts>>
  /\ daemon' = [daemon EXCEPT ![t] = <<>>]

\* lock() without the in-process mutex: the goroutine goes on at once
MutexLockNoWait(t) ==
  /\ pc[t] = "lock_mutex"
  /\ mutex' = t
  /\ pc' = [pc EXCEPT ![t] = "lock_getfile"]
  /\ UNCHANGED <<fileOwner, tries, lastErr, kind, nl, tmpOK, image, input, output, daemon, li, acc, pend, exitCode, ret, facts>>

\* lock(): daemonMutex.Lock() blocks until the mutex is free
MutexLock(t) ==
  /\ pc[t] = "lock_mutex"
  /\ mutex = NoTask
  /\ mutex' = t
  /\ pc' = [pc EXCEPT ![t] = "lock_getfile"]
  /\ UNCHANGED <<fileOwner, tries, lastErr, kind, nl, tmpOK, image, input, output, daemon, li, acc, pend, exitCode, ret, facts>>

\* getLockfile(): lockfile.New fails when the path is not absolute
getLockfile == tmpOK

\* lock(): lock, err = getLockfile(); on an error unlock the mutex and return
LockGetLockfile(t) ==
  /\ pc[t] = "lock_getfile"
  /\ IF getLockfile
     THEN /\ pc' = [pc EXCEPT ![t] = "trylock"]
          /\ tries' = [tries EXCEPT ![t] = 0]
          /\ lastErr' = [lastErr EXCEPT ![t] = "nil"]
          /\ UNCHANGED <<mutex, ret, acc, li, pend, exitCode>>
     ELSE /\ mutex' = NoTask
          /\ ReturnFromContainer(t, TRUE, EmptyMap)
          /\ UNCHANGED <<tries, lastErr>>
  /\ UNCHANGED <<fileOwner, kind, nl, tmpOK, image, input, output, daemon, facts>>

\* lockfile.TryLock() of this process: it succeeds when the lock file is free or
\* already names this process (the lock is recursive within a process), and
\* fails with the temporary error ErrBusy when another live process owns it.
TryLockSucceeds == fileOwner \in {"free", "self"}
TryLockBusyNow == fileOwner = "other"

\* lock(): one iteration of the loop whose TryLock returns nil
TryLockOk(t) ==
  /\ pc[t] = "trylock"
  /\ tries[t] < MaxTries
  /\ TryLockSucceeds
  /\ fileOwner' = "self"
  /\ lastErr' = [lastErr EXCEPT ![t] = "nil"]
  /\ tries' = [tries EXCEPT ![t] = tries[t] + 1]
  /\ UNCHANGED <<pc, mutex, kind, nl, tmpOK, image, input, output, daemon, li, acc, pend, exitCode, ret, facts>>

\* lock(): TryLock returns a lockfile.TemporaryError; the goroutine sleeps
TryLockBusy(t) ==
  /\ pc[t] = "trylock"
  /\ tries[t] < MaxTries
  /\ TryLockBusyNow
  /\ lastErr' = [lastErr EXCEPT ![t] = "temp"]
  /\ pc' = [pc EXCEPT ![t] = "sleep"]
  /\ UNCHANGED <<mutex, fileOwner, tries, kind, nl, tmpOK, image, input, output, daemon, li, acc, pend, exitCode, ret, facts>>

\* lock(): time.Sleep(2 * time.Second), then i++
Sleep(t) ==
  /\ pc[t] = "sleep"
  /\ tries' = [tries EXCEPT ![t] = tries[t] + 1]
  /\ pc' = [pc EXCEPT ![t] = "trylock"]
  /\ UNCHANGED <<mutex, fileOwner, lastErr, kind, nl, tmpOK, image, input, output, daemon, li, acc, pend, exitCode, ret, facts>>

\* lock(): TryLock returns an error that is no TemporaryError (an I/O error on
\* the lock file): unlock the mutex and return the error
TryLockFatal(t) ==
  /\ pc[t] = "trylock"
  /\ tries[t] < MaxTries
  /\ mutex' = NoTask
  /\ ReturnFromContainer(t, TRUE, EmptyMap)
  /\ UNCHANGED <<fileOwner, tries, lastErr, kind, nl, tmpOK, image, input, output, daemon, facts>>

\* lock(): after the loop, err of the last attempt decides
LockLoopExit(t) ==
  /\ pc[t] = "trylock"
  /\ tries[t] = MaxTries
  /\ IF lastErr[t] # "nil"
     THEN /\ mutex' = NoTask
          /\ ReturnFromContainer(t, TRUE, EmptyMap)
     ELSE /\ pc' = [pc EXCEPT ![t] = "tag"]
          /\ UNCHANGED <<mutex, ret, acc, li, pend, exitCode>>
  /\ UNCHANGED <<fileOwner, tries, lastErr, kind, nl, tmpOK, image, input, output, daemon, facts>>

\* loadImageToDaemon: generateValidImageTag() asks the daemon (daemon.Image)
\* until it finds a tag that is not in use
GenerateTag(t) ==
  /\ pc[t] = "tag"
  /\ pc' = [pc EXCEPT ![t] = "write"]
  /\ UNCHANGED <<mutex, fileOwner, tries, lastErr, kind, nl, tmpOK, image, input, output, daemon, li, acc, pend, exitCode, ret, facts>>

\* loadImageToDaemon: daemon.Write(tag, img); on an error rpmDataFromContainer
\* returns at once (line 175), without a call of unlock()
DaemonWrite(t) ==
  /\ pc[t] = "write"
  /\ \E ok \in BOOLEAN :
       IF ok
       THEN /\ pc' = [pc EXCEPT ![t] = "unlock"]
            /\ daemon' = [daemon EXCEPT ![t] = Append(daemon[t], "Write")]
            /\ UNCHANGED <<ret, acc, li, facts, pend, exitCode>>
       ELSE /\ facts' = [facts EXCEPT ![t].loadFailed = TRUE]
            /\ UNCHANGED daemon
            /\ ReturnFromContainer(t, TRUE, EmptyMap)
  /\ UNCHANGED <<mutex, fileOwner, tries, lastErr, kind, nl, tmpOK, image, input, output>>

\* unlock(): getLockfile(); on an error unlock() returns, and its caller
\* ignores what it returns
UnlockGetLockfile(t) ==
  /\ pc[t] = "unlock"
  /\ pc' = [pc EXCEPT ![t] = IF getLockfile THEN "unlock_file" ELSE "create"]
  /\ UNCHANGED <<mutex, fileOwner, tries, lastErr, kind, nl, tmpOK, image, input, output, daemon, li, acc, pend, exitCode, ret, facts>>

\* unlock(): lock.Unlock() removes the lock file
UnlockFileOk(t) ==
  /\ pc[t] = "unlock_file"
  /\ fileOwner = "self"
  /\ fileOwner' = "free"
  /\ pc' = [pc EXCEPT ![t] = "unlock_mutex"]
  /\ UNCHANGED <<mutex, tries, lastErr, kind, nl, tmpOK, image, input, output, daemon, li, acc, pend, exitCode, ret, facts>>

\* unlock(): lock.Unlock() fails (the file cannot be removed); unlock() returns
\* the error before it reaches daemonMutex.Unlock()
UnlockFileFails(t) ==
  /\ pc[t] = "unlock_file"
  /\ pc' = [pc EXCEPT ![t] = "create"]
  /\ UNCHANGED <<mutex, fileOwner, tries, lastErr, kind, nl, tmpOK, image, input, output, daemon, li, acc, pend, exitCode, ret, facts>>

\* unlock(): daemonMutex.Unlock()
UnlockMutex(t) ==
  /\ pc[t] = "unlock_mutex"
  /\ mutex' = NoTask
  /\ pc' = [pc EXCEPT ![t] = "create"]
  /\ UNCHANGED <<fileOwner, tries, lastErr, kind, nl, tmpOK, image, input, output, daemon, li, acc, pend, exitCode, ret, facts>>

\* CreateContainer with the removal of the image deferred only after it: a
\* failure returns with the image left in the daemon
CreateContainerThenDefer(t) ==
  /\ pc[t] = "create"
  /\ \E ok \in BOOLEAN :
       IF ok
       THEN /\ pc' = [pc EXCEPT ![t] = "startc"]
            /\ daemon' = [daemon EXCEPT ![t] = Append(daemon[t], "CreateContainer")]
            /\ UNCHANGED <<pend, li, acc, exitCode, ret>>
       ELSE /\ ReturnFromContainer(t, TRUE, EmptyMap)
            /\ UNCHANGED daemon
  /\ UNCHANGED <<mutex, fileOwner, tries, lastErr, kind, nl, tmpOK, image, input, output, facts>>

\* client.CreateContainer(contOpts); the deferred RemoveImage is registered
CreateContainer(t) ==
  /\ pc[t] = "create"
  /\ \E ok \in BOOLEAN :
       IF ok
       THEN /\ pc' = [pc EXCEPT ![t] = "startc"]
            /\ daemon' = [daemon EXCEPT ![t] = Append(daemon[t], "CreateContainer")]
            /\ UNCHANGED pend
       ELSE /\ pc' = [pc EXCEPT ![t] = "rm_image"]
            /\ pend' = [pend EXCEPT ![t] = [err |-> TRUE, m |-> EmptyMap]]
            /\ UNCHANGED daemon
  /\ UNCHANGED <<mutex, fileOwner, tries, lastErr, kind, nl, tmpOK, image, input, output, li, acc, exitCode, ret, facts>>

\* client.StartContainer(container.ID, &hostConf); RemoveContainer is deferred
StartContainer(t) ==
  /\ pc[t] = "startc"
  /\ \E ok \in BOOLEAN :
       IF ok
       THEN /\ pc' = [pc EXCEPT ![t] = "wait"]
            /\ UNCHANGED pend
       ELSE /\ pc' = [pc EXCEPT ![t] = "rm_container"]
            /\ pend' = [pend EXCEPT ![t] = [err |-> TRUE, m |-> EmptyMap]]
  /\ UNCHANGED <<mutex, fileOwner, tries, lastErr, kind, nl, tmpOK, image, input, output, daemon, li, acc, exitCode, ret, facts>>

\* exitCode, err := client.WaitContainer(container.ID)
ExitCodes == {0, 1}
WaitContainer(t) ==
  /\ pc[t] = "wait"
  /\ \/ /\ pc' = [pc EXCEPT ![t] = "rm_container"]
        /\ pend' = [pend EXCEPT ![t] = [err |-> TRUE, m |-> EmptyMap]]
        /\ UNCHANGED <<exitCode, facts>>
     \/ \E code \in ExitCodes :
          /\ exitCode' = [exitCode EXCEPT ![t] = code]
          /\ facts' = [facts EXCEPT ![t].contNonZero = (code # 0)]
          /\ pc' = [pc EXCEPT ![t] = "logs"]
          /\ UNCHANGED pend
  /\ UNCHANGED <<mutex, fileOwner, tries, lastErr, kind, nl, tmpOK, image, input, output, daemon, li, acc, ret>>

\* an exit code test that takes only a negative code for a failure
ExitIsErrorNegative(code) == code < 0

\* the test of line 227
ExitIsError(code) == code # 0

\* client.Logs(logOpts), the exit code test, and parsePackageData of the output
Logs(t) ==
  /\ pc[t] = "logs"
  /\ \/ pend' = [pend EXCEPT ![t] = [err |-> TRUE, m |-> EmptyMap]]
     \/ LET r == parsePackageData(image.out)
        IN pend' = [pend EXCEPT ![t] =
                     IF ExitIsError(exitCode[t])
                     THEN [err |-> TRUE, m |-> EmptyMap]
                     ELSE [err |-> r.err, m |-> MapFrom("container", li[t], r.packages)]]
  /\ pc' = [pc EXCEPT ![t] = "rm_container"]
  /\ UNCHANGED <<mutex, fileOwner, tries, lastErr, kind, nl, tmpOK, image, input, output, daemon, li, acc, exitCode, ret, facts>>

\* deferred client.RemoveContainer(removeOpts)
RemoveContainer(t) ==
  /\ pc[t] = "rm_container"
  /\ pc' = [pc EXCEPT ![t] = "rm_image"]
  /\ UNCHANGED <<mutex, fileOwner, tries, lastErr, kind, nl, tmpOK, image, input, output, li, acc, pend, exitCode, ret, facts>>
  /\ daemon' = [daemon EXCEPT ![t] = Append(daemon[t], "RemoveContainer")]

\* deferred client.RemoveImage(imageName), then the function returns
RemoveImage(t) ==
  /\ pc[t] = "rm_image"
  /\ ReturnFromContainer(t, pend[t].err, pend[t].m)
  /\ UNCHANGED <<mutex, fileOwner, tries, lastErr, kind, nl, tmpOK, image, input, output, facts>>
  /\ daemon' = [daemon EXCEPT ![t] = Append(daemon[t], "RemoveImage")]

\* ---------------------------------------------------------- other processes
\* Another container-diff process takes the lock file when it is free
OtherLock ==
  /\ fileOwner = "free"
  /\ fileOwner' = "other"
  /\ UNCHANGED <<pc, mutex, tries, lastErr, kind, nl, tmpOK, image, input, output, daemon, li, acc, pend, exitCode, ret, facts>>

\* and removes it when it leaves its gated section
OtherUnlock ==
  /\ fileOwner = "other"
  /\ fileOwner' = "free"
  /\ UNCHANGED <<pc, mutex, tries, lastErr, kind, nl, tmpOK, image, input, output, daemon, li, acc, pend, exitCode, ret, facts>>

\* --------------------------------------------------- getPackages, on disk
\* What a getPackages call finds on disk and on the host.  A field that the
\* code does not reach keeps its default, so that each case appears once.
EnvDefault == [rootOK |-> TRUE, bin |-> TRUE, dbOK |-> TRUE, hostRpm |-> TRUE,
               macros |-> "ok", evalOK |-> TRUE, exitOK |-> TRUE, out |-> OutOne]
Reached(e) ==
  /\ ~e.rootOK => e.bin
  /\ ~(e.rootOK /\ e.bin) => e.hostRpm
  /\ ~(e.rootOK /\ e.bin /\ e.hostRpm) => e.macros = "ok"
  /\ ~(e.rootOK /\ e.bin /\ e.hostRpm /\ e.macros = "ok") => e.evalOK
  /\ ~(e.rootOK /\ e.bin /\ e.hostRpm /\ e.macros = "ok" /\ e.evalOK /\ e.dbOK) => e.exitOK
\* the cases of a root directory that holds (db) or lacks an rpm database
\* whose content makes the query print out
FsEnvs(db, out) ==
  {e \in [rootOK : BOOLEAN, bin : BOOLEAN, dbOK : {db}, hostRpm : BOOLEAN,
          macros : {"absent", "nodbpath", "short", "ok"}, evalOK : BOOLEAN,
          exitOK : BOOLEAN, out : {out}] : Reached(e)}
\* the layers: each with or without a database of its own
LayerEnvs ==
  UNION {FsEnvs(i.dbOK, i.out) : i \in Images} \cap
    {e \in [rootOK : {TRUE}, bin : {TRUE}, dbOK : BOOLEAN, hostRpm : {TRUE},
            macros : {"ok"}, evalOK : {TRUE}, exitOK : BOOLEAN, out : RpmOutputs] : TRUE}

\* rpmEnvCheck(rootFSPath): TRUE when it returns an error.  The host needs an
\* rpm binary, the image a macros file with a %_dbpath line of two fields,
\* "rpm -E" must succeed, and the expanded path must exist in the image
rpmEnvCheck(e) ==
  IF ~e.hostRpm THEN TRUE
  ELSE IF e.macros = "absent" THEN TRUE
  ELSE IF e.macros \in {"nodbpath", "short"} THEN TRUE
  ELSE IF ~e.evalOK THEN TRUE
  ELSE ~e.dbOK

\* rpmDataFromFS(fsPath, dbPath): the host rpm is run only when the database
\* directory exists; a failed run or an unparsable output is an error
rpmDataFromFS(e, layer) ==
  IF e.dbOK
  THEN IF ~e.exitOK
       THEN [m |-> [EmptyMap EXCEPT !.layer = layer], err |-> TRUE]
       ELSE LET r == parsePackageData(e.out)
            IN [m |-> MapFrom("host", layer, r.packages), err |-> r.err]
  ELSE [m |-> [EmptyMap EXCEPT !.layer = layer], err |-> FALSE]

\* rpmDataFromImageFS(image)
rpmDataFromImageFS(e) ==
  IF rpmEnvCheck(e) THEN [m |-> EmptyMap, err |-> TRUE] ELSE rpmDataFromFS(e, 0)

FactsOf(e, fb) ==
  [NoFacts EXCEPT !.rootOK = e.rootOK, !.dbAbsent = ~e.dbOK, !.bin = e.bin,
                  !.fallback = fb, !.hostNonZero = ~e.exitOK]

\* RPMAnalyzer.getPackages up to the container query: stat of the root, the
\* search for bin/rpm and usr/bin/rpm, rpmDataFromImageFS
RPMGetPackages(t) ==
  /\ pc[t] = "start" /\ kind[t] = "rpm"
  /\ \E e \in FsEnvs(image.dbOK, image.out) :
       LET r == rpmDataFromImageFS(e)
           fb == e.rootOK /\ e.bin /\ r.err
       IN /\ facts' = [facts EXCEPT ![t] = FactsOf(e, fb)]
          /\ IF ~e.rootOK
             THEN /\ pc' = [pc EXCEPT ![t] = "done"]
                  /\ ret' = [ret EXCEPT ![t] = [err |-> TRUE, maps |-> <<EmptyMap>>]]
             ELSE IF ~e.bin
             THEN /\ pc' = [pc EXCEPT ![t] = "done"]
                  /\ ret' = [ret EXCEPT ![t] = [err |-> FALSE, maps |-> <<EmptyMap>>]]
             ELSE IF r.err
             THEN /\ pc' = [pc EXCEPT ![t] = "client"]
                  /\ UNCHANGED ret
             ELSE /\ pc' = [pc EXCEPT ![t] = "done"]
                  /\ ret' = [ret EXCEPT ![t] = [err |-> FALSE, maps |-> <<r.m>>]]
  /\ UNCHANGED <<mutex, fileOwner, tries, lastErr, kind, nl, tmpOK, image, input, output, daemon, li, acc, pend, exitCode>>

\* RPMLayerAnalyzer.getPackages up to the loop of rpmDataFromLayerFS
RPMLayerGetPackages(t) ==
  /\ pc[t] = "start" /\ kind[t] = "rpmLayer"
  /\ \E e \in {x \in FsEnvs(image.dbOK, image.out) : x.exitOK} :
       LET fb == e.rootOK /\ e.bin /\ rpmEnvCheck(e)
       IN /\ facts' = [facts EXCEPT ![t] = FactsOf(e, fb)]
          /\ IF ~e.rootOK
             THEN /\ pc' = [pc EXCEPT ![t] = "done"]
                  /\ ret' = [ret EXCEPT ![t] = [err |-> TRUE, maps |-> <<>>]]
                  /\ UNCHANGED li
             ELSE IF ~e.bin
             THEN /\ pc' = [pc EXCEPT ![t] = "done"]
                  /\ ret' = [ret EXCEPT ![t] = [err |-> FALSE, maps |-> <<>>]]
                  /\ UNCHANGED li
             ELSE IF fb
             THEN /\ pc' = [pc EXCEPT ![t] = "layers"]
                  /\ UNCHANGED <<ret, li>>
             ELSE /\ pc' = [pc EXCEPT ![t] = "fs_layer"]
                  /\ li' = [li EXCEPT ![t] = 1]
                  /\ UNCHANGED ret
  /\ UNCHANGED <<mutex, fileOwner, tries, lastErr, kind, nl, tmpOK, image, input, output, daemon, acc, pend, exitCode>>

\* rpmDataFromLayerFS: one layer of the loop, rpmDataFromFS(layer.FSPath, dbPath);
\* an error sends getPackages to rpmDataFromLayeredContainers
RPMLayerFS(t) ==
  /\ pc[t] = "fs_layer"
  /\ \E e \in LayerEnvs :
       LET r == rpmDataFromFS(e, li[t])
       IN IF r.err
          THEN /\ pc' = [pc EXCEPT ![t] = "layers"]
               /\ facts' = [facts EXCEPT ![t].fallback = TRUE, ![t].hostNonZero = ~e.exitOK]
               /\ UNCHANGED <<acc, li, ret>>
          ELSE /\ acc' = [acc EXCEPT ![t] = Append(acc[t], r.m)]
               /\ UNCHANGED facts
               /\ IF li[t] = nl
                  THEN /\ pc' = [pc EXCEPT ![t] = "done"]
                       /\ ret' = [ret EXCEPT ![t] = [err |-> FALSE, maps |-> Append(acc[t], r.m)]]
                       /\ UNCHANGED li
                  ELSE /\ li' = [li EXCEPT ![t] = li[t] + 1]
                       /\ UNCHANGED <<pc, ret>>
  /\ UNCHANGED <<mutex, fileOwner, tries, lastErr, kind, nl, tmpOK, image, input, output, daemon, pend, exitCode>>

\* the loop of rpmDataFromLayeredContainers appending to the maps that
\* rpmDataFromLayerFS had gathered before it failed
LayeredContainersKeepsMaps(t) ==
  /\ pc[t] = "layers"
  /\ \E ok \in BOOLEAN :
       IF ok
       THEN /\ pc' = [pc EXCEPT ![t] = "append"]
            /\ li' = [li EXCEPT ![t] = 1]
            /\ UNCHANGED <<ret, acc>>
       ELSE /\ pc' = [pc EXCEPT ![t] = "done"]
            /\ ret' = [ret EXCEPT ![t] = [err |-> TRUE, maps |-> <<>>]]
            /\ UNCHANGED <<li, acc>>
  /\ UNCHANGED <<mutex, fileOwner, tries, lastErr, kind, nl, tmpOK, image, input, output, daemon, pend, exitCode, facts>>

\* rpmDataFromLayeredContainers: random.Image(0, 0) and image.Layers()
LayeredContainers(t) ==
  /\ pc[t] = "layers"
  /\ \E ok \in BOOLEAN :
       IF ok
       THEN /\ pc' = [pc EXCEPT ![t] = "append"]
            /\ li' = [li EXCEPT ![t] = 1]
            /\ acc' = [acc EXCEPT ![t] = <<>>]
            /\ UNCHANGED ret
       ELSE /\ pc' = [pc EXCEPT ![t] = "done"]
            /\ ret' = [ret EXCEPT ![t] = [err |-> TRUE, maps |-> <<>>]]
            /\ UNCHANGED <<li, acc>>
  /\ UNCHANGED <<mutex, fileOwner, tries, lastErr, kind, nl, tmpOK, image, input, output, daemon, pend, exitCode, facts>>

\* rpmDataFromLayeredContainers: mutate.AppendLayers(tmpImage, layer), then the
\* call of rpmDataFromContainer(tmpImage)
AppendLayers(t) ==
  /\ pc[t] = "append"
  /\ \E ok \in BOOLEAN :
       IF ok
       THEN /\ pc' = [pc EXCEPT ![t] = "client"]
            /\ UNCHANGED ret
       ELSE /\ pc' = [pc EXCEPT ![t] = "done"]
            /\ ret' = [ret EXCEPT ![t] = [err |-> TRUE, maps |-> acc[t]]]
  /\ UNCHANGED <<mutex, fileOwner, tries, lastErr, kind, nl, tmpOK, image, input, output, daemon, li, acc, pend, exitCode, facts>>

\* ------------------------------------------------------ the apk analyzers
ApkP == <<"P", ":", "a">>
ApkV == <<"V", ":", "1">>
ApkI == <<"I", ":", "5">>
ApkFiles == {<<>>, <<ApkP, ApkV, ApkI, <<>>>>}
ApkEnvDefault == [rootOK |-> TRUE, fileOK |-> TRUE, openOK |-> TRUE, lines |-> <<>>]
ApkEnvs ==
  {e \in [rootOK : BOOLEAN, fileOK : BOOLEAN, openOK : BOOLEAN, lines : ApkFiles] :
     /\ ~e.rootOK => e = [ApkEnvDefault EXCEPT !.rootOK = FALSE]
     /\ ~e.fileOK => e = [ApkEnvDefault EXCEPT !.fileOK = FALSE]
     /\ ~e.openOK => e = [ApkEnvDefault EXCEPT !.openOK = FALSE]}

\* ApkAnalyzer.getPackages: readWorldFile(image.FSPath)
ApkGetPackages(t) ==
  /\ pc[t] = "start" /\ kind[t] = "apk"
  /\ \E e \in ApkEnvs :
       LET r == readWorldFileInstalled(e)
       IN /\ ret' = [ret EXCEPT ![t] =
                      [err |-> r.err,
                       maps |-> <<IF r.read THEN MapFrom("apkdb", 0, r.packages)
                                  ELSE EmptyMap>>]]
          /\ facts' = [facts EXCEPT ![t] =
                        [NoFacts EXCEPT !.rootOK = e.rootOK, !.dbAbsent = ~e.fileOK]]
  /\ pc' = [pc EXCEPT ![t] = "done"]
  /\ UNCHANGED <<mutex, fileOwner, tries, lastErr, kind, nl, tmpOK, image, input, output, daemon, li, acc, pend, exitCode>>

\* readStatusFile(layer.FSPath), the reader of var/lib/dpkg/status that
\* ApkLayerAnalyzer.getPackages calls for each layer: a map of c packages, or
\* an error
readStatusFile(layer, ok, c) ==
  [m |-> [from |-> "dpkg", layer |-> layer, n |-> c], err |-> ~ok]

\* ApkLayerAnalyzer.getPackages: the layers 1..k are read, layer k + 1 (if
\* any) fails
ApkLayerResult(e, k, c) ==
  IF ~e.rootOK THEN [err |-> TRUE, maps |-> <<>>]
  ELSE IF ~e.fileOK THEN [err |-> FALSE, maps |-> <<>>]
  ELSE [err |-> k < nl, maps |-> [i \in 1..k |-> readStatusFile(i, TRUE, c).m]]

ApkLayerGetPackages(t) ==
  /\ pc[t] = "start" /\ kind[t] = "apkLayer"
  /\ \E e \in {x \in ApkEnvs : x.openOK /\ x.lines = <<>>}, k \in 0..nl, c \in {0, 1} :
       /\ ret' = [ret EXCEPT ![t] = ApkLayerResult(e, k, c)]
       /\ facts' = [facts EXCEPT ![t] =
                     [NoFacts EXCEPT !.rootOK = e.rootOK, !.dbAbsent = ~e.fileOK]]
  /\ pc' = [pc EXCEPT ![t] = "done"]
  /\ UNCHANGED <<mutex, fileOwner, tries, lastErr, kind, nl, tmpOK, image, input, output, daemon, li, acc, pend, exitCode>>

\* ------------------------------------------------------------ specification
\* N goroutines, each in RPMAnalyzer.getPackages at its call of
\* rpmDataFromContainer (line 106: the query on disk has failed), the image
\* being one with an rpm database
Init ==
  /\ kind = [t \in Tasks |-> "rpm"]
  /\ pc = [t \in Tasks |-> "client"]
  /\ mutex = NoTask
  /\ fileOwner = "free"
  /\ tries = [t \in Tasks |-> 0]
  /\ lastErr = [t \in Tasks |-> "nil"]
  /\ nl = 1
  /\ tmpOK \in BOOLEAN
  /\ image = [dbOK |-> TRUE, out |-> OutOne]
  /\ li = [t \in Tasks |-> 0]
  /\ acc = [t \in Tasks |-> <<>>]
  /\ pend = [t \in Tasks |-> NoPend]
  /\ exitCode = [t \in Tasks |-> 0]
  /\ ret = [t \in Tasks |-> NoRet]
  /\ facts = [t \in Tasks |-> [NoFacts EXCEPT !.bin = TRUE, !.fallback = TRUE]]
  /\ input = <<>>
  /\ output = NotRun
  /\ daemon = [t \in Tasks |-> <<>>]

\* the steps of lock() and unlock() that a healthy, uncontended lock file allows
GateStep(t) ==
  \/ MutexLock(t) \/ LockGetLockfile(t) \/ TryLockOk(t) \/ LockLoopExit(t)
  \/ UnlockGetLockfile(t) \/ UnlockFileOk(t) \/ UnlockMutex(t)

\* the steps that need another process or a failing lock file
ContendedStep(t) ==
  \/ TryLockBusy(t) \/ Sleep(t) \/ TryLockFatal(t) \/ UnlockFileFails(t)

ContainerStep(t) ==
  \/ NewClient(t)
  \/ GenerateTag(t) \/ DaemonWrite(t)
  \/ CreateContainer(t) \/ StartContainer(t) \/ WaitContainer(t) \/ Logs(t)
  \/ RemoveContainer(t) \/ RemoveImage(t)

DiskStep(t) ==
  \/ RPMGetPackages(t) \/ RPMLayerGetPackages(t) \/ RPMLayerFS(t)
  \/ LayeredContainers(t) \/ AppendLayers(t)
  \/ ApkGetPackages(t) \/ ApkLayerGetPackages(t)

Next ==
  \/ \E t \in Tasks : ContainerStep(t) \/ GateStep(t) \/ ContendedStep(t)
  \/ OtherLock
  \/ OtherUnlock

Spec == Init /\ [][Next]_vars

\* One getPackages call of any analyzer on any image, from its first line
PkgInit ==
  /\ kind \in [Tasks -> Kinds] /\ \A t \in Tasks : t # 1 => kind[t] = "rpm"
  /\ pc = [t \in Tasks |-> IF t = 1 THEN "start" ELSE "done"]
  /\ mutex = NoTask
  /\ fileOwner = "free"
  /\ tries = [t \in Tasks |-> 0]
  /\ lastErr = [t \in Tasks |-> "nil"]
  /\ nl \in 1..MaxLayers
  /\ tmpOK \in BOOLEAN
  /\ image \in Images
  /\ li = [t \in Tasks |-> 0]
  /\ acc = [t \in Tasks |-> <<>>]
  /\ pend = [t \in Tasks |-> NoPend]
  /\ exitCode = [t \in Tasks |-> 0]
  /\ ret = [t \in Tasks |-> NoRet]
  /\ facts = [t \in Tasks |-> NoFacts]
  /\ input = <<>>
  /\ output = NotRun
  /\ daemon = [t \in Tasks |-> <<>>]

PkgNext ==
  \/ DiskStep(1) \/ ContainerStep(1) \/ GateStep(1) \/ ContendedStep(1)
  \/ OtherLock
  \/ OtherUnlock

PkgSpec == PkgInit /\ [][PkgNext]_vars

\* Fair scheduling of the goroutines, no other process, a healthy lock file
LiveInit == Init /\ tmpOK

LiveNext == \E t \in Tasks : ContainerStep(t) \/ GateStep(t)

LiveSpec ==
  /\ LiveInit
  /\ [][LiveNext]_vars
  /\ \A t \in Tasks : WF_vars(ContainerStep(t) \/ GateStep(t))

\* ------------------------------------------------------ the parsers alone
\* the analyzers at rest
Idle ==
  /\ kind = [t \in Tasks |-> "rpm"]
  /\ pc = [t \in Tasks |-> "done"]
  /\ mutex = NoTask
  /\ fileOwner = "free"
  /\ tries = [t \in Tasks |-> 0]
  /\ lastErr = [t \in Tasks |-> "nil"]
  /\ nl = 1
  /\ tmpOK = TRUE
  /\ image = [dbOK |-> TRUE, out |-> OutOne]
  /\ li = [t \in Tasks |-> 0]
  /\ acc = [t \in Tasks |-> <<>>]
  /\ pend = [t \in Tasks |-> NoPend]
  /\ exitCode = [t \in Tasks |-> 0]
  /\ ret = [t \in Tasks |-> NoRet]
  /\ facts = [t \in Tasks |-> NoFacts]
  /\ daemon = [t \in Tasks |-> <<>>]
gate == <<pc, mutex, fileOwner, tries, lastErr, kind, nl, tmpOK, image, li, acc, pend,
          exitCode, ret, facts, daemon>>

\* the texts of at most n lines over a set of lines
Texts(lineSet, n) == UNION {[1..k -> lineSet] : k \in 0..n}

\* lines of the output of the rpm query: well formed, a second version of a
\* name, an empty line, lines of one and of two columns, an unparsable size
RpmLines ==
  { <<"a", TAB, "1", TAB, "5">>, <<"a", TAB, "2", TAB, "7">>, <<"b", TAB, "1", TAB, "5">>,
    <<>>, <<"j">>, <<"a", TAB, "1">>, <<"b", TAB, "2", TAB, "x">> }

\* parsePackageData(rpmOutput) for any output
ParseInit == Idle /\ input \in Texts(RpmLines, MaxLines) /\ output = NotRun
ParseRun ==
  /\ output = NotRun
  /\ output' = parsePackageData(input)
  /\ UNCHANGED <<gate, input>>
ParseNext == ParseRun
ParseSpec == ParseInit /\ [][ParseNext]_vars

\* lines of lib/apk/db/installed: names, versions, sizes (one unparsable), the
\* empty line that separates two records
ApkLines ==
  { <<"P", ":", "a">>, <<"P", ":", "b">>, <<"V", ":", "1">>, <<"V", ":", "2">>,
    <<"I", ":", "5">>, <<"I", ":", "x">>, <<>> }

\* readWorldFile(root) for any content of lib/apk/db/installed
ApkDbInit == Idle /\ input \in Texts(ApkLines, MaxLines) /\ output = NotRun
ApkDbRun ==
  /\ output = NotRun
  /\ output' = readWorldFileInstalled([rootOK |-> TRUE, fileOK |-> TRUE, openOK |-> TRUE,
                                       lines |-> input])
  /\ UNCHANGED <<gate, input>>
ApkDbNext == ApkDbRun
ApkDbSpec == ApkDbInit /\ [][ApkDbNext]_vars

\* ---------------------------------------------------- etc/apk/world and Diff
\* a world line with name and version exchanged
parseApkInfoSwapped(text, currPackage, packages) ==
  LET line == Split(text, "=") IN
  IF Len(line) < 2
  THEN [curr |-> currPackage, packages |-> packages, panic |-> TRUE]
  ELSE [curr |-> line[2],
        packages |-> Put(packages, line[2], [InfoOf(packages, line[2]) EXCEPT !.Version = line[1]]),
        panic |-> FALSE]

\* parseApkInfo of the reader of etc/apk/world: the text is split at "=", the
\* first piece is the name and the second the version; line[1] of a text
\* without "=" is out of range and the program panics
parseApkInfoWorld(text, currPackage, packages) ==
  LET line == Split(text, "=") IN
  IF Len(line) < 2
  THEN [curr |-> currPackage, packages |-> packages, panic |-> TRUE]
  ELSE [curr |-> line[1],
        packages |-> Put(packages, line[1], [InfoOf(packages, line[1]) EXCEPT !.Version = line[2]]),
        panic |-> FALSE]

\* the scanner loop of readWorldFile over etc/apk/world
RECURSIVE scanWorld(_, _, _, _)
scanWorld(lines, i, currPackage, packages) ==
  IF i > Len(lines) THEN [packages |-> packages, err |-> FALSE, panic |-> FALSE]
  ELSE LET r == parseApkInfoWorld(lines[i], currPackage, packages) IN
       IF r.panic THEN [packages |-> r.packages, err |-> FALSE, panic |-> TRUE]
       ELSE scanWorld(lines, i + 1, r.curr, r.packages)

\* readWorldFile(root) of the reader of etc/apk/world
readWorldFileWorld(e) ==
  IF ~e.rootOK THEN [packages |-> NoPackages, err |-> TRUE, panic |-> FALSE]
  ELSE IF ~e.fileOK THEN [packages |-> NoPackages, err |-> FALSE, panic |-> FALSE]
  ELSE IF ~e.openOK THEN [packages |-> NoPackages, err |-> TRUE, panic |-> FALSE]
  ELSE scanWorld(e.lines, 1, <<>>, NoPackages)

\* ApkAnalyzer.getPackages(image) over etc/apk/world
ApkWorldGetPackages(e) == readWorldFileWorld(e)

\* the comparison of two package maps: the names of the first map alone, the
\* names of the second alone, and the names of both whose infos differ
GetMapDiff(map1, map2) ==
  [Image1Only |-> [n \in DOMAIN map1 \ DOMAIN map2 |-> map1[n]],
   Image2Only |-> [n \in DOMAIN map2 \ DOMAIN map1 |-> map2[n]],
   Modified   |-> [n \in {x \in DOMAIN map1 \cap DOMAIN map2 : map1[x] # map2[x]} |->
                     [Info1 |-> map1[n], Info2 |-> map2[n]]]]

NoDiff == GetMapDiff(NoPackages, NoPackages)

\* singleVersionDiff(image1, image2, differ): the packages of both images,
\* then their comparison
singleVersionDiff(e1, e2) ==
  LET pack1 == ApkWorldGetPackages(e1) IN
  IF pack1.panic THEN [diff |-> NoDiff, err |-> FALSE, panic |-> TRUE]
  ELSE IF pack1.err THEN [diff |-> NoDiff, err |-> TRUE, panic |-> FALSE]
  ELSE LET pack2 == ApkWorldGetPackages(e2) IN
       IF pack2.panic THEN [diff |-> NoDiff, err |-> FALSE, panic |-> TRUE]
       ELSE IF pack2.err THEN [diff |-> NoDiff, err |-> TRUE, panic |-> FALSE]
       ELSE [diff |-> GetMapDiff(pack1.packages, pack2.packages), err |-> FALSE,
             panic |-> FALSE]

\* ApkAnalyzer.Diff(image1, image2)
ApkDiff(e1, e2) == singleVersionDiff(e1, e2)

\* lines of etc/apk/world: musl in two versions, busybox, curl, and a name
\* without a version
WorldLines ==
  { <<"m", "=", "1">>, <<"m", "=", "2">>, <<"b", "=", "1">>, <<"c", "=", "1">>, <<"m">> }
WorldFile(lines) == [rootOK |-> TRUE, fileOK |-> TRUE, openOK |-> TRUE, lines |-> lines]

\* ApkAnalyzer.Diff for any two world files
WorldInit ==
  /\ Idle
  /\ input \in Texts(WorldLines, MaxWorldLines) \X Texts(WorldLines, MaxWorldLines)
  /\ output = NotRun
WorldDiff ==
  /\ output = NotRun
  /\ output' = ApkDiff(WorldFile(input[1]), WorldFile(input[2]))
  /\ UNCHANGED <<gate, input>>
WorldNext == WorldDiff
WorldSpec == WorldInit /\ [][WorldNext]_vars

\* ------------------------------------------------------------------ claims
\* A goroutine is inside the gated section from the successful return of
\* lock() until its unlock() has released the lock file; another process is
\* inside while it owns the lock file.
Inside(t) == pc[t] \in {"tag", "write", "unlock", "unlock_file"}
InsideCount == Cardinality({t \in Tasks : Inside(t)}) + (IF fileOwner = "other" THEN 1 ELSE 0)

\* C1: at most one task (goroutine of this process, or other process) is
\* inside the gated section at any instant.
GateExclusivity == InsideCount <= 1

\* C1 witness: a goroutine is inside while another one waits at daemonMutex.Lock()
GateExclusivityWitness ==
  \E t, u \in Tasks : t # u /\ Inside(t) /\ pc[u] = "lock_mutex" /\ fileOwner = "self"

\* C2: the process holds the lock file only while one of its goroutines holds
\* daemonMutex.
TwoLevelDiscipline == fileOwner = "self" => mutex # NoTask

\* C3: once a task has returned an error, any other task that is in lock(),
\* waiting for daemonMutex, eventually acquires the gate.
SiblingProgress ==
  \A t, u \in Tasks :
    (t # u /\ pc[u] = "done" /\ ret[u].err /\ pc[t] = "lock_mutex") ~> (pc[t] = "tag")

\* C4: the tag check and the image load happen with the gate held, and every
\* container lifecycle operation happens with the gate released by the task.
ContainerOps == {"create", "startc", "wait", "logs", "rm_container"}
GateScope ==
  \A t \in Tasks :
    /\ pc[t] \in {"tag", "write"} => mutex = t /\ fileOwner = "self"
    /\ pc[t] \in ContainerOps => mutex # t

\* C5: lock() makes at most 10 TryLock attempts, and a further attempt only
\* after an attempt that failed with a temporary error.
BoundedRetry ==
  \A t \in Tasks :
    /\ tries[t] <= MaxTries
    /\ (pc[t] = "trylock" /\ 0 < tries[t] /\ tries[t] < MaxTries) => lastErr[t] = "temp"

Done(t) == pc[t] = "done"
AllEmpty(maps) == \A i \in 1..Len(maps) : maps[i].n = 0
RpmKinds == {"rpm", "rpmLayer"}

\* C6 as stated: with a readable root and the package database absent,
\* getPackages returns an empty result and a nil error.
MissingDbNotError ==
  \A t \in Tasks :
    (Done(t) /\ facts[t].rootOK /\ facts[t].dbAbsent) =>
      ~ret[t].err /\ AllEmpty(ret[t].maps)

\* C6 amended: with a readable root and the database absent, the apk
\* analyzers, and the rpm analyzers when the image holds no rpm binary, return
\* an empty result and a nil error; the rpm analyzers go on to the query in a
\* container exactly when the image holds an rpm binary, and only then may
\* the call return an error.
MissingDbEmptyUnlessContainer ==
  \A t \in Tasks :
    (Done(t) /\ facts[t].rootOK /\ facts[t].dbAbsent) =>
      /\ facts[t].fallback <=> (kind[t] \in RpmKinds /\ facts[t].bin)
      /\ ~facts[t].fallback => ~ret[t].err /\ AllEmpty(ret[t].maps)
      /\ \A i \in 1..Len(ret[t].maps) : ret[t].maps[i].from \in {"none", "container"}

\* C6 witness: the apk analyzer has returned for a root without the database
MissingDbWitness ==
  \E t \in Tasks :
    /\ Done(t) /\ kind[t] = "apk" /\ facts[t].rootOK /\ facts[t].dbAbsent
    /\ ret[t] = [err |-> FALSE, maps |-> <<EmptyMap>>]

\* C7 as stated: when an rpm query (on the host or in the container) exits
\* non-zero, getPackages returns an error and no map parsed from its output.
NonZeroExitFatal ==
  \A t \in Tasks :
    (Done(t) /\ (facts[t].hostNonZero \/ facts[t].contNonZero)) =>
      /\ ret[t].err
      /\ facts[t].hostNonZero => \A i \in 1..Len(ret[t].maps) : ret[t].maps[i].from # "host"
      /\ facts[t].contNonZero =>
           \A i \in 1..Len(ret[t].maps) :
             ~(ret[t].maps[i].from = "container" /\ ret[t].maps[i].layer = li[t])

\* C7 amended: a non-zero exit of the container makes getPackages return an
\* error and no map of that container; a non-zero exit of the host rpm makes
\* getPackages drop the host's output and return what the query in a
\* container returns, which may be a map and a nil error.
NonZeroExitContainerFatal ==
  \A t \in Tasks :
    Done(t) =>
      /\ facts[t].contNonZero =>
           /\ ret[t].err
           /\ \A i \in 1..Len(ret[t].maps) :
                ~(ret[t].maps[i].from = "container" /\ ret[t].maps[i].layer = li[t])
      /\ facts[t].hostNonZero =>
           /\ facts[t].fallback
           /\ \A i \in 1..Len(ret[t].maps) : ret[t].maps[i].from \in {"none", "container"}

\* C7 witness: the container of the query has exited non-zero and the call
\* has returned
NonZeroExitWitness ==
  \E t \in Tasks : Done(t) /\ facts[t].contNonZero /\ facts[t].hostNonZero /\ ret[t].err


\* ---- parsePackageData
Ran == output # NotRun
Lines == 1..Len(input)
NonEmpty == {i \in Lines : input[i] # <<>>}
Cols(i) == Split(input[i], TAB)
ThreeCols == {i \in Lines : Len(Cols(i)) = 3}
BadSize == {i \in ThreeCols : ~ParseInt(Cols(i)[3]).ok}
\* the lines read before the first unparsable size
Before == {i \in Lines : \A j \in BadSize : i < j}
Kept == ThreeCols \cap Before
LastKept(name) == CHOOSE i \in Kept : /\ Cols(i)[1] = name
                                      /\ \A j \in Kept : Cols(j)[1] = name => j <= i

\* C8 as stated: the map has as many entries as the output has non-empty
\* lines, and every entry is column 1 of a line mapped to the Version in its
\* column 2 and the Size in its column 3.
OneEntryPerNonEmptyLine ==
  Ran =>
    /\ Cardinality(DOMAIN output.packages) = Cardinality(NonEmpty)
    /\ \A name \in DOMAIN output.packages :
         \E i \in ThreeCols : /\ Cols(i)[1] = name
                              /\ output.packages[name].Version = Cols(i)[2]
                              /\ ParseInt(Cols(i)[3]).ok
                              /\ output.packages[name].Size = ParseInt(Cols(i)[3]).val

\* C8 amended: lines without exactly three columns are skipped; the first
\* three-column line whose size is no integer ends the parse with an error and
\* the entries of the lines before it; the map has one entry per distinct name
\* in column 1 of the three-column lines read, holding the Version and Size of
\* the last such line with that name; so the entries number the non-empty
\* lines when every non-empty line is read, has three columns and the names
\* differ.
OneEntryPerPackageName ==
  Ran =>
    /\ output.err = (BadSize # {})
    /\ DOMAIN output.packages = {Cols(i)[1] : i \in Kept}
    /\ \A name \in DOMAIN output.packages :
         /\ output.packages[name].Version = Cols(LastKept(name))[2]
         /\ output.packages[name].Size = ParseInt(Cols(LastKept(name))[3]).val
    /\ (/\ NonEmpty \subseteq Kept
        /\ \A i, j \in Kept : Cols(i)[1] = Cols(j)[1] => i = j)
       => Cardinality(DOMAIN output.packages) = Cardinality(NonEmpty)

\* an output with a repeated name and a malformed line is parsed without error
\* to fewer entries than it has non-empty lines
OneEntryPerPackageNameWitness ==
  /\ Ran
  /\ ~output.err
  /\ \E i, j \in Kept : i < j /\ Cols(i)[1] = Cols(j)[1] /\ Cols(i)[2] # Cols(j)[2]
  /\ NonEmpty \ ThreeCols # {}
  /\ Cardinality(DOMAIN output.packages) = 1

\* ---- lib/apk/db/installed
Field(i) == Split(input[i], ":")
IsKey(i, k) == Len(Field(i)) = 2 /\ Field(i)[1] = <<k>>
\* the record of a line: the number of empty lines before it
RecordOf(i) == Cardinality({j \in Lines : j < i /\ input[j] = <<>>})
\* the P: lines of the record of line i
NamedBy(i) == {j \in Lines : IsKey(j, "P") /\ RecordOf(j) = RecordOf(i)}

\* C9 as stated: every record with a P: line has an entry under that name and
\* no other entry exists; an entry's Version is the value of a V: line, and its
\* Size the value of an I: line, of a record that a P: line names so.
OneEntryPerRecord ==
  Ran =>
    /\ DOMAIN output.packages = {Field(i)[2] : i \in {j \in Lines : IsKey(j, "P")}}
    /\ \A name \in DOMAIN output.packages :
         /\ \A i \in Lines :
              (IsKey(i, "V") /\ \E j \in NamedBy(i) : Field(j)[2] = name)
                <=> (IsKey(i, "V") /\ output.packages[name].Version = Field(i)[2])
         /\ \A i \in Lines :
              (IsKey(i, "I") /\ output.packages[name].Size = ParseInt(Field(i)[2]).val
                 /\ ParseInt(Field(i)[2]).ok)
                => \E j \in NamedBy(i) : Field(j)[2] = name

\* ---- etc/apk/world
FileA == input[1]
FileB == input[2]
NameVersion(f) == \A i \in 1..Len(f) : Len(Split(f[i], "=")) = 2
NameOf(f, i) == Split(f[i], "=")[1]
Names(f) == {NameOf(f, i) : i \in 1..Len(f)}
\* the version of a name in a file: the one on its last line
VersionIn(f, name) ==
  LET last == CHOOSE i \in 1..Len(f) :
                /\ NameOf(f, i) = name
                /\ \A j \in 1..Len(f) : NameOf(f, j) = name => j <= i
  IN Split(f[last], "=")[2]

\* C10: for two world files of name=version lines, Diff returns without error
\* the names of A alone in Image1Only with A's version, the names of B alone
\* in Image2Only with B's version, and in Modified exactly the names of both
\* whose versions differ, with both versions.
WorldDiffBuckets ==
  (Ran /\ NameVersion(FileA) /\ NameVersion(FileB)) =>
    /\ ~output.err /\ ~output.panic
    /\ DOMAIN output.diff.Image1Only = Names(FileA) \ Names(FileB)
    /\ \A n \in DOMAIN output.diff.Image1Only :
         output.diff.Image1Only[n].Version = VersionIn(FileA, n)
    /\ DOMAIN output.diff.Image2Only = Names(FileB) \ Names(FileA)
    /\ \A n \in DOMAIN output.diff.Image2Only :
         output.diff.Image2Only[n].Version = VersionIn(FileB, n)
    /\ DOMAIN output.diff.Modified =
         {n \in Names(FileA) \cap Names(FileB) : VersionIn(FileA, n) # VersionIn(FileB, n)}
    /\ \A n \in DOMAIN output.diff.Modified :
         /\ output.diff.Modified[n].Info1.Version = VersionIn(FileA, n)
         /\ output.diff.Modified[n].Info2.Version = VersionIn(FileB, n)

\* the scenario: A = {musl=1, busybox=1}, B = {musl=2, curl=1} gives busybox in
\* Image1Only, curl in Image2Only and musl modified from 1 to 2
WorldDiffScenario ==
  /\ Ran
  /\ FileA = << <<"m", "=", "1">>, <<"b", "=", "1">> >>
  /\ FileB = << <<"m", "=", "2">>, <<"c", "=", "1">> >>
  /\ DOMAIN output.diff.Image1Only = {<<"b">>}
  /\ output.diff.Image1Only[<<"b">>].Version = <<"1">>
  /\ DOMAIN output.diff.Image2Only = {<<"c">>}
  /\ output.diff.Image2Only[<<"c">>].Version = <<"1">>
  /\ DOMAIN output.diff.Modified = {<<"m">>}
  /\ output.diff.Modified[<<"m">>].Info1.Version = <<"1">>
  /\ output.diff.Modified[<<"m">>].Info2.Version = <<"2">>

\* ---- the per-layer analyzers
LayerKinds == {"rpmLayer", "apkLayer"}
Aligned(maps) == Len(maps) = nl /\ \A i \in 1..Len(maps) : maps[i].layer = i

\* C11 as stated: a per-layer getPackages that returns a nil error returns
\* one map per layer of the image, the i-th of the i-th layer.
LayerAlignment ==
  \A t \in Tasks :
    (Done(t) /\ kind[t] \in LayerKinds /\ ~ret[t].err) => Aligned(ret[t].maps)

\* C11 amended: a per-layer getPackages that returns a nil error returns
\* either no map at all, when the image root has no rpm binary (rpm) or no apk
\* database file (apk), or one map per layer, the i-th of the i-th layer.
LayerAlignmentOrEmpty ==
  \A t \in Tasks :
    (Done(t) /\ kind[t] \in LayerKinds /\ ~ret[t].err) =>
      \/ Aligned(ret[t].maps)
      \/ /\ ret[t].maps = <<>>
         /\ kind[t] = "rpmLayer" => ~facts[t].bin
         /\ kind[t] = "apkLayer" => facts[t].dbAbsent

\* the layers of an image of two layers read on disk until the second fails,
\* then queried one by one in containers: two maps, of layers 1 and 2
LayerAlignmentWitness ==
  \E t \in Tasks :
    /\ Done(t) /\ kind[t] = "rpmLayer" /\ ~ret[t].err
    /\ nl = MaxLayers
    /\ facts[t].fallback /\ facts[t].hostNonZero
    /\ Aligned(ret[t].maps)
    /\ \A i \in 1..nl : ret[t].maps[i].from = "container"

\* C12: every map that ApkLayerAnalyzer.getPackages returns is what the flat
\* apk reader gives for some content of that layer's apk database, and never
\* the content of another package manager's database.
ApkLayerReadsApkDb ==
  \A t \in Tasks :
    (Done(t) /\ kind[t] = "apkLayer") =>
      \A i \in 1..Len(ret[t].maps) :
        \E e \in ApkEnvs :
          LET r == readWorldFileInstalled(e)
          IN ret[t].maps[i] = IF r.read THEN MapFrom("apkdb", i, r.packages)
                              ELSE [EmptyMap EXCEPT !.layer = i]

\* C13: the step on which unlock() returns, with or without an error, leaves
\* daemonMutex not held by the task that called it.
InUnlock(t) == pc[t] \in {"unlock", "unlock_file", "unlock_mutex"}
UnlockFreesMutex ==
  [][\A t \in Tasks : (InUnlock(t) /\ ~InUnlock(t)') => mutex' # t]_vars

\* ---- the requests to the daemon
Returned(t) == pc[t] \in {"done", "append"}
Places(t, req) == {i \in 1..Len(daemon[t]) : daemon[t][i] = req}
Loaded(t) == Places(t, "Write") # {}

\* C14: when rpmDataFromContainer has returned after it loaded the image,
\* RemoveImage was requested exactly once, and if a container was created
\* RemoveContainer was requested once, before RemoveImage.
DaemonCleanup ==
  \A t \in Tasks :
    (Returned(t) /\ Loaded(t)) =>
      /\ Cardinality(Places(t, "RemoveImage")) = 1
      /\ Places(t, "CreateContainer") # {} =>
           /\ Cardinality(Places(t, "RemoveContainer")) = 1
           /\ \A i \in Places(t, "RemoveContainer"), j \in Places(t, "RemoveImage") : i < j
      /\ Places(t, "CreateContainer") = {} => Places(t, "RemoveContainer") = {}

\* a call returns an error after the container was created: both removals
\* were requested, the container's first
DaemonCleanupWitness ==
  \E t \in Tasks :
    /\ Done(t) /\ ret[t].err
    /\ daemon[t] = <<"Write", "CreateContainer", "RemoveContainer", "RemoveImage">>

\* ---- etc/apk/world, any line
\* C15: readWorldFile over etc/apk/world returns a map and a nil error,
\* without a runtime fault, whatever the lines of the file.
WorldParseReturns ==
  Ran => (~output.panic /\ ~output.err)
====
